---- MODULE Spec2Model ----
(***************************************************************************)
(* Work-hours tracker (src/main.py): interactive entry of clock times,     *)
(* the HH:MM duration codec, the month-keyed record store with its load /  *)
(* merge / flatten operations, the monthly calendar grid and the assembled *)
(* workbook that is written back to the history file.                      *)
(*                                                                         *)
(* Text is modelled as a sequence of one-character strings, so that        *)
(* formatting and parsing are computed and not assumed.  Fixed literals of *)
(* the program that are never parsed (month names, sheet names, column     *)
(* headers, cell prefixes) are single tokens of such a sequence.           *)
(* Durations (timedelta) are whole seconds.                                *)
(***************************************************************************)
EXTENDS Integers, Sequences, FiniteSets, TLC

(***************************************************************************)
(* Text helpers: str, int(), str.split, f"{n:02d}"                          *)
(***************************************************************************)
Digits == <<"0", "1", "2", "3", "4", "5", "6", "7", "8", "9">>

IsDigit(c) == \E i \in 1..10 : Digits[i] = c

DigitVal(c) == (CHOOSE i \in 1..10 : Digits[i] = c) - 1

RECURSIVE NatToText(_)
\* str(n) for n >= 0
NatToText(n) ==
    IF n < 10 THEN <<Digits[n + 1]>>
    ELSE NatToText(n \div 10) \o <<Digits[(n % 10) + 1]>>

\* f"{n:0{width}d}": zero padded to a minimum width, the sign counted in the width
ZeroPad(n, width) ==
    LET mag == NatToText(IF n < 0 THEN -n ELSE n)
        sign == IF n < 0 THEN <<"-">> ELSE <<>>
        room == width - Len(sign) - Len(mag)
        zeros == [i \in 1..(IF room > 0 THEN room ELSE 0) |-> "0"]
    IN sign \o zeros \o mag

RECURSIVE DigitsToNat(_)
DigitsToNat(s) ==
    IF s = <<>> THEN 0
    ELSE 10 * DigitsToNat(SubSeq(s, 1, Len(s) - 1)) + DigitVal(s[Len(s)])

AllDigits(s) == Len(s) > 0 /\ \A i \in 1..Len(s) : IsDigit(s[i])

\* int(text): optional sign, then at least one digit; anything else raises
IntOk(s) ==
    /\ Len(s) > 0
    /\ IF s[1] \in {"-", "+"} THEN AllDigits(Tail(s)) ELSE AllDigits(s)

IntVal(s) ==
    IF s[1] = "-" THEN 0 - DigitsToNat(Tail(s))
    ELSE IF s[1] = "+" THEN DigitsToNat(Tail(s))
    ELSE DigitsToNat(s)

RECURSIVE Split(_, _)
\* text.split(sep): the parts between the separators, empty parts kept
Split(s, sep) ==
    IF \A i \in 1..Len(s) : s[i] # sep THEN <<s>>
    ELSE LET k == CHOOSE i \in 1..Len(s) :
                    s[i] = sep /\ \A j \in 1..(i - 1) : s[j] # sep
         IN <<SubSeq(s, 1, k - 1)>> \o Split(SubSeq(s, k + 1, Len(s)), sep)

\* the order of characters that sorted() on str uses, for the characters of a month key
CharRank(c) == IF c = "-" THEN 0 ELSE 1 + DigitVal(c)

RECURSIVE TextLess(_, _)
\* a < b on str: lexicographic by character
TextLess(a, b) ==
    IF a = <<>> THEN b # <<>>
    ELSE IF b = <<>> THEN FALSE
    ELSE IF a[1] = b[1] THEN TextLess(Tail(a), Tail(b))
    ELSE CharRank(a[1]) < CharRank(b[1])

(***************************************************************************)
(* Calendar helpers: datetime.strptime / strftime and calendar.monthcalendar *)
(***************************************************************************)
IsLeap(y) == (y % 4 = 0 /\ y % 100 # 0) \/ y % 400 = 0

DaysInMonth(y, m) ==
    IF m = 2 THEN (IF IsLeap(y) THEN 29 ELSE 28)
    ELSE IF m \in {4, 6, 9, 11} THEN 30 ELSE 31

\* calendar.weekday(y, m, d): Monday is 0
Weekday(y, m, d) ==
    LET t == <<0, 3, 2, 5, 0, 3, 5, 1, 4, 6, 2, 4>>
        yy == IF m < 3 THEN y - 1 ELSE y
        sundayFirst == (yy + (yy \div 4) - (yy \div 100) + (yy \div 400) + t[m] + d) % 7
    IN (sundayFirst + 6) % 7

\* calendar.monthcalendar(year, month): weeks of 7 day numbers, 0 outside the month
monthcalendar(year, month) ==
    LET first == Weekday(year, month, 1)
        n == DaysInMonth(year, month)
        weeks == (first + n + 6) \div 7
    IN [w \in 1..weeks |->
          [i \in 1..7 |->
              LET day == (w - 1) * 7 + i - first
              IN IF day >= 1 /\ day <= n THEN day ELSE 0]]

month_name ==
    <<"January", "February", "March", "April", "May", "June", "July",
      "August", "September", "October", "November", "December">>

NoDate == [ok |-> FALSE, y |-> 0, m |-> 0, d |-> 0]

\* datetime.strptime(text, "%Y-%m-%d"): four year digits, one or two month and
\* day digits, a real calendar day; ok is FALSE where strptime raises ValueError
strptime_date(s) ==
    LET p == Split(s, "-")
    IN IF Len(p) # 3 THEN NoDate
       ELSE IF ~(Len(p[1]) = 4 /\ AllDigits(p[1])) THEN NoDate
       ELSE IF ~(Len(p[2]) \in {1, 2} /\ AllDigits(p[2])) THEN NoDate
       ELSE IF ~(Len(p[3]) \in {1, 2} /\ AllDigits(p[3])) THEN NoDate
       ELSE LET y == DigitsToNat(p[1])
                m == DigitsToNat(p[2])
                d == DigitsToNat(p[3])
            IN IF y >= 1 /\ m \in 1..12 /\ d >= 1 /\ d <= DaysInMonth(y, m)
               THEN [ok |-> TRUE, y |-> y, m |-> m, d |-> d]
               ELSE NoDate

\* date_object.strftime("%Y-%m")
strftime_month(dt) == ZeroPad(dt.y, 4) \o <<"-">> \o ZeroPad(dt.m, 2)

\* date_object.strftime("%Y-%m-%d")
strftime_date(dt) == strftime_month(dt) \o <<"-">> \o ZeroPad(dt.d, 2)

\* datetime.strptime(text, "%H.%M"): minutes after midnight, -1 where it raises
strptime_time(s) ==
    LET p == Split(s, ".")
    IN IF Len(p) # 2 THEN -1
       ELSE IF ~(Len(p[1]) \in {1, 2} /\ AllDigits(p[1])) THEN -1
       ELSE IF ~(Len(p[2]) \in {1, 2} /\ AllDigits(p[2])) THEN -1
       ELSE IF DigitsToNat(p[1]) > 23 \/ DigitsToNat(p[2]) > 59 THEN -1
       ELSE DigitsToNat(p[1]) * 60 + DigitsToNat(p[2])

(***************************************************************************)
(* Cell values of a sheet and of the store: what openpyxl writes and what  *)
(* pandas reads back.  kind "none" is an empty cell (NaN once read).       *)
(***************************************************************************)
NoCell == [kind |-> "none", v |-> 0]

StrCell(t) == [kind |-> "str", v |-> t]

IntCell(n) == [kind |-> "int", v |-> n]

DateCell(y, m, d) == [kind |-> "date", v |-> [ok |-> TRUE, y |-> y, m |-> m, d |-> d]]

\* f"{value}" of a cell value
FormatValue(value) ==
    IF value.kind = "str" THEN value.v
    ELSE IF value.kind = "int" THEN ZeroPad(value.v, 1)
    ELSE IF value.kind = "date" THEN strftime_date(value.v) \o <<" ", "00:00:00">>
    ELSE <<"nan">>

(***************************************************************************)
(* Duration codec                                                          *)
(***************************************************************************)
SecondsPerHour == 3600

SecondsPerMinute == 60

\* WorkHoursTracker._format_timedelta
Tracker_format_timedelta(time_delta) ==
    LET total_seconds == time_delta
        hours == total_seconds \div SecondsPerHour
        minutes == (total_seconds % SecondsPerHour) \div SecondsPerMinute
    IN ZeroPad(hours, 2) \o <<":">> \o ZeroPad(minutes, 2)

\* a slip in the minutes of the formatter: the remainder of the hour is not taken
format_timedelta_minutes_of_total(time_delta) ==
    LET total_seconds == time_delta
        hours == total_seconds \div SecondsPerHour
        minutes == total_seconds \div SecondsPerMinute
    IN ZeroPad(hours, 2) \o <<":">> \o ZeroPad(minutes, 2)

\* MonthlyCalendarFormatter._format_timedelta
format_timedelta(time_delta) ==
    LET total_seconds == time_delta
        hours == total_seconds \div SecondsPerHour
        minutes == (total_seconds % SecondsPerHour) \div SecondsPerMinute
    IN ZeroPad(hours, 2) \o <<":">> \o ZeroPad(minutes, 2)

\* parse_time_string reading the minutes of a negative text as negative too
parse_time_string_sign_magnitude(time_string) ==
    IF time_string.kind # "str" THEN 0
    ELSE LET p == Split(time_string.v, ":")
         IN IF Len(p) # 2 THEN 0
            ELSE IF ~(IntOk(p[1]) /\ IntOk(p[2])) THEN 0
            ELSE IF IntVal(p[1]) < 0
                 THEN IntVal(p[1]) * SecondsPerHour - IntVal(p[2]) * SecondsPerMinute
                 ELSE IntVal(p[1]) * SecondsPerHour + IntVal(p[2]) * SecondsPerMinute

\* MonthlyCalendarFormatter._parse_time_string: any failure gives timedelta()
parse_time_string(time_string) ==
    IF time_string.kind # "str" THEN 0
    ELSE LET p == Split(time_string.v, ":")
         IN IF Len(p) # 2 THEN 0
            ELSE IF ~(IntOk(p[1]) /\ IntOk(p[2])) THEN 0
            ELSE IntVal(p[1]) * SecondsPerHour + IntVal(p[2]) * SecondsPerMinute

(***************************************************************************)
(* WorkHoursTracker: the hour calculation                                  *)
(***************************************************************************)
STANDARD_WORKDAY_HOURS == 8

determine_entry_type(entry_count) ==
    IF entry_count % 2 = 0 THEN "Clock In" ELSE "Clock Out"

is_valid_time_format(time_string) == strptime_time(time_string) >= 0

\* the DateTime column: every entry carries the selected date, so a difference
\* of two entries is the difference of their times of day, in seconds
create_time_dataframe(entries) ==
    [i \in 1..Len(entries) |-> strptime_time(entries[i].Time) * SecondsPerMinute]

RECURSIVE SumPairs(_, _)
SumPairs(frame, i) ==
    IF i > Len(frame) THEN 0
    ELSE (IF i + 1 <= Len(frame) THEN frame[i + 1] - frame[i] ELSE 0)
         + SumPairs(frame, i + 2)

calculate_total_worked_time(time_dataframe) == SumPairs(time_dataframe, 1)

calculate_hours(entries) ==
    LET total_worked == calculate_total_worked_time(create_time_dataframe(entries))
    IN [worked |-> total_worked,
        extra |-> total_worked - STANDARD_WORKDAY_HOURS * SecondsPerHour]

(***************************************************************************)
(* dict: keys in insertion order; assigning an existing key keeps its place *)
(***************************************************************************)
DictHas(d, k) == \E i \in 1..Len(d) : d[i].key = k

DictGet(d, k) == d[CHOOSE i \in 1..Len(d) : d[i].key = k].value

DictSet(d, k, v) ==
    IF DictHas(d, k)
    THEN [i \in 1..Len(d) |-> IF d[i].key = k THEN [key |-> k, value |-> v] ELSE d[i]]
    ELSE Append(d, [key |-> k, value |-> v])

DictKeys(d) == [i \in 1..Len(d) |-> d[i].key]

RECURSIVE Concat(_)
Concat(ss) == IF ss = <<>> THEN <<>> ELSE Head(ss) \o Concat(Tail(ss))

(***************************************************************************)
(* ExcelCalendarGenerator: the record store                                *)
(*   work_data: month key -> (date text -> worked_hours / extra_hours)     *)
(* A file is [exists, readable, sheets]; a sheet is [title, rows], a row a *)
(* sequence of cells.  An operation that can raise returns [raised, data]. *)
(***************************************************************************)
Raised == [raised |-> TRUE, data |-> <<>>]

Returned(d) == [raised |-> FALSE, data |-> d]

HoursRecord(worked_hours, extra_hours) ==
    [worked_hours |-> worked_hours, extra_hours |-> extra_hours]

\* pd.read_excel on one sheet: the first row names the columns
DataFrame(sheet) ==
    IF sheet.rows = <<>> THEN [columns |-> <<>>, rows |-> <<>>]
    ELSE [columns |-> Head(sheet.rows), rows |-> Tail(sheet.rows)]

HasSheet(f, title) == \E i \in 1..Len(f.sheets) : f.sheets[i].title = title

SheetNamed(f, title) ==
    f.sheets[CHOOSE i \in 1..Len(f.sheets) : f.sheets[i].title = title]

HasColumn(df, name) ==
    \E i \in 1..Len(df.columns) : df.columns[i] = StrCell(<<name>>)

\* row[name]
Column(df, i, name) ==
    df.rows[i][CHOOSE j \in 1..Len(df.columns) : df.columns[j] = StrCell(<<name>>)]

\* strptime for a string, the value itself otherwise; what is no datetime has
\* no strftime, which shows as ok = FALSE
parse_date_from_row(date_value) ==
    IF date_value.kind = "str" THEN strptime_date(date_value.v)
    ELSE IF date_value.kind = "date" THEN date_value.v
    ELSE NoDate

RECURSIVE ConvertRows(_, _, _)
ConvertRows(df, i, work_data) ==
    IF i > Len(df.rows) THEN Returned(work_data)
    ELSE IF ~HasColumn(df, "Date") THEN Raised
    ELSE LET date_object == parse_date_from_row(Column(df, i, "Date"))
         IN IF ~date_object.ok THEN Raised
            ELSE IF ~(HasColumn(df, "Hours Worked") /\ HasColumn(df, "Extra Hours"))
            THEN Raised
            ELSE LET month_year == strftime_month(date_object)
                     date_string == strftime_date(date_object)
                     bucket == IF DictHas(work_data, month_year)
                               THEN DictGet(work_data, month_year) ELSE <<>>
                     hours == HoursRecord(Column(df, i, "Hours Worked"),
                                          Column(df, i, "Extra Hours"))
                 IN ConvertRows(df, i + 1,
                        DictSet(work_data, month_year,
                                DictSet(bucket, date_string, hours)))

convert_dataframe_to_work_data(dataframe) == ConvertRows(dataframe, 1, <<>>)

load_from_data_sheet(f) ==
    IF ~f.readable \/ ~HasSheet(f, <<"Data">>) THEN Raised
    ELSE convert_dataframe_to_work_data(DataFrame(SheetNamed(f, <<"Data">>)))

load_from_legacy_format(f) ==
    IF ~f.readable \/ f.sheets = <<>> THEN Raised
    ELSE convert_dataframe_to_work_data(DataFrame(f.sheets[1]))

\* the inner try left out: a failure of the legacy read leaves the function
load_existing_data_legacy_uncaught(f) ==
    IF ~f.exists THEN Returned(<<>>)
    ELSE LET fromData == load_from_data_sheet(f)
         IN IF ~fromData.raised THEN fromData
            ELSE load_from_legacy_format(f)

load_existing_data(f) ==
    IF ~f.exists THEN Returned(<<>>)
    ELSE LET fromData == load_from_data_sheet(f)
         IN IF ~fromData.raised THEN fromData
            ELSE LET legacy == load_from_legacy_format(f)
                 IN IF ~legacy.raised THEN legacy ELSE Returned(<<>>)

\* the month bucket is started afresh on every call
add_current_day_data_fresh_bucket(work_data, date, worked_hours, extra_hours) ==
    LET month_year == strftime_month(strptime_date(date))
    IN DictSet(work_data, month_year,
               DictSet(<<>>, date, HoursRecord(StrCell(worked_hours), StrCell(extra_hours))))

add_current_day_data(work_data, date, worked_hours, extra_hours) ==
    LET date_object == strptime_date(date)
        month_year == strftime_month(date_object)
        bucket == IF DictHas(work_data, month_year)
                  THEN DictGet(work_data, month_year) ELSE <<>>
    IN DictSet(work_data, month_year,
               DictSet(bucket, date, HoursRecord(StrCell(worked_hours), StrCell(extra_hours))))

flatten_work_data(work_data) ==
    Concat([i \in 1..Len(work_data) |->
              [j \in 1..Len(work_data[i].value) |->
                  << StrCell(work_data[i].value[j].key),
                     work_data[i].value[j].value.worked_hours,
                     work_data[i].value[j].value.extra_hours >>]])

DataHeader == <<StrCell(<<"Date">>), StrCell(<<"Hours Worked">>), StrCell(<<"Extra Hours">>)>>

\* header=False: the rows are appended without the column names
add_backup_data_sheet_no_header(workbook, work_data) ==
    Append(workbook, [title |-> <<"Data">>, rows |-> flatten_work_data(work_data)])

add_backup_data_sheet(workbook, work_data) ==
    LET all_records == flatten_work_data(work_data)
    IN Append(workbook,
              [title |-> <<"Data">>,
               rows |-> IF all_records # <<>> THEN <<DataHeader>> \o all_records ELSE <<>>])

(***************************************************************************)
(* MonthlyCalendarFormatter: one month sheet.  The worksheet is the matrix *)
(* of its cell values, rows 1..total_row by the 7 day columns; a write to  *)
(* a cell replaces what the cell held.  Fills, fonts, borders and widths   *)
(* carry no value and are left out.                                        *)
(***************************************************************************)
TitleRow == 1

HeaderRow == 3

FirstWeekRow == 4

DaysPerWeek == 7

ZeroExtra == <<"0", "0", ":", "0", "0">>

day_names == <<"Monday", "Tuesday", "Wednesday", "Thursday", "Friday", "Saturday", "Sunday">>

SetCell(worksheet, row, column, value) == [worksheet EXCEPT ![row][column] = value]

TotalRow(calendar_weeks_count) == FirstWeekRow + calendar_weeks_count + 1

NewWorksheet(year, month) ==
    [r \in 1..TotalRow(Len(monthcalendar(year, month))) |-> [c \in 1..DaysPerWeek |-> NoCell]]

SheetTitle(year, month) == <<month_name[month], " ">> \o ZeroPad(year, 1)

add_month_title(worksheet, year, month) ==
    SetCell(worksheet, TitleRow, 1, StrCell(SheetTitle(year, month)))

add_day_headers(worksheet) ==
    [worksheet EXCEPT ![HeaderRow] = [i \in 1..DaysPerWeek |-> StrCell(<<day_names[i]>>)]]

add_work_hours_to_cell(worksheet, row, column, day_data) ==
    LET withWorked == SetCell(worksheet, row + 1, column,
                              StrCell(<<"W: ">> \o FormatValue(day_data.worked_hours)))
    IN IF day_data.extra_hours # StrCell(ZeroExtra)
       THEN SetCell(withWorked, row + 2, column,
                    StrCell(<<"E: ">> \o FormatValue(day_data.extra_hours)))
       ELSE withWorked

add_day_cell(worksheet, week_number, day_number, day, year, month, month_data) ==
    LET row == FirstWeekRow + week_number
        column == day_number + 1
        date_string == ZeroPad(year, 1) \o <<"-">> \o ZeroPad(month, 2)
                       \o <<"-">> \o ZeroPad(day, 2)
        numbered == SetCell(worksheet, row, column, IntCell(day))
    IN IF DictHas(month_data, date_string)
       THEN add_work_hours_to_cell(numbered, row, column, DictGet(month_data, date_string))
       ELSE numbered

RECURSIVE FillSlots(_, _, _, _, _, _)
\* the two nested loops, week by week and Monday to Sunday; slot k is day
\* k % 7 of week k \div 7 (the test on written only orders the evaluation)
FillSlots(worksheet, calendar_weeks, k, year, month, month_data) ==
    IF k >= Len(calendar_weeks) * DaysPerWeek THEN worksheet
    ELSE LET week_number == k \div DaysPerWeek
             day_number == k % DaysPerWeek
             day == calendar_weeks[week_number + 1][day_number + 1]
             written == IF day # 0
                        THEN add_day_cell(worksheet, week_number, day_number, day,
                                          year, month, month_data)
                        ELSE worksheet
         IN IF Len(written) > 0
            THEN FillSlots(written, calendar_weeks, k + 1, year, month, month_data)
            ELSE written

fill_calendar_days(worksheet, year, month, month_data) ==
    FillSlots(worksheet, monthcalendar(year, month), 0, year, month, month_data)

RECURSIVE SumWorked(_)
SumWorked(month_data) ==
    IF month_data = <<>> THEN 0
    ELSE parse_time_string(Head(month_data).value.worked_hours) + SumWorked(Tail(month_data))

RECURSIVE SumExtra(_)
SumExtra(month_data) ==
    IF month_data = <<>> THEN 0
    ELSE parse_time_string(Head(month_data).value.extra_hours) + SumExtra(Tail(month_data))

calculate_monthly_totals(month_data) ==
    [total_worked |-> SumWorked(month_data), total_extra |-> SumExtra(month_data)]

\* merge_cells A:B keeps the value of A only; then A, C and E are written
add_monthly_totals(worksheet, month_data, calendar_weeks_count) ==
    LET total_row == TotalRow(calendar_weeks_count)
        totals == calculate_monthly_totals(month_data)
        merged == SetCell(worksheet, total_row, 2, NoCell)
        labelled == SetCell(merged, total_row, 1, StrCell(<<"MONTHLY TOTAL:">>))
        worked == SetCell(labelled, total_row, 3,
                          StrCell(<<"Worked: ">> \o format_timedelta(totals.total_worked)))
    IN SetCell(worked, total_row, 5,
               StrCell(<<"Extra: ">> \o format_timedelta(totals.total_extra)))

create_monthly_calendar(year, month, month_data) ==
    LET titled == add_month_title(NewWorksheet(year, month), year, month)
        headed == add_day_headers(titled)
        filled == fill_calendar_days(headed, year, month, month_data)
    IN add_monthly_totals(filled, month_data, Len(monthcalendar(year, month)))

(***************************************************************************)
(* ExcelCalendarGenerator: the workbook                                    *)
(***************************************************************************)
RECURSIVE InsertSorted(_, _)
InsertSorted(x, sorted) ==
    IF sorted = <<>> THEN <<x>>
    ELSE IF TextLess(x, Head(sorted)) THEN <<x>> \o sorted
    ELSE <<Head(sorted)>> \o InsertSorted(x, Tail(sorted))

RECURSIVE Sorted(_)
\* sorted(keys)
Sorted(keys) ==
    IF keys = <<>> THEN <<>> ELSE InsertSorted(Head(keys), Sorted(Tail(keys)))

\* Workbook(): one default sheet, the active one
Workbook == << [title |-> <<"Sheet">>, rows |-> <<>>] >>

MonthSheet(work_data, month_key) ==
    LET parts == Split(month_key, "-")
        year == IntVal(parts[1])
        month == IntVal(parts[2])
    IN [title |-> SheetTitle(year, month),
        rows |-> create_monthly_calendar(year, month, DictGet(work_data, month_key))]

\* the keys are walked as the dict holds them, without sorted()
create_workbook_with_calendars_unsorted(work_data) ==
    [i \in 1..Len(work_data) |-> MonthSheet(work_data, DictKeys(work_data)[i])]

create_workbook_with_calendars(work_data) ==
    LET emptied == Tail(Workbook)
        keys == Sorted(DictKeys(work_data))
    IN emptied \o [i \in 1..Len(keys) |-> MonthSheet(work_data, keys[i])]

\* create_calendar_excel, in its three steps: load, merge, assemble.  The
\* result is the store as loaded, the store as merged and the file as saved;
\* raised is TRUE where the load lets an exception out, and nothing is saved
AssembleAndSave(before, merged) ==
    [raised |-> FALSE,
     loaded |-> before,
     work_data |-> merged,
     file |-> [exists |-> TRUE, readable |-> TRUE,
               sheets |-> add_backup_data_sheet(create_workbook_with_calendars(merged),
                                                merged)]]

MergeAndSave(existing, date, worked_hours, extra_hours) ==
    IF existing.raised
    THEN [raised |-> TRUE, loaded |-> <<>>, work_data |-> <<>>,
          file |-> [exists |-> FALSE, readable |-> FALSE, sheets |-> <<>>]]
    ELSE AssembleAndSave(existing.data,
             add_current_day_data(existing.data, date, worked_hours, extra_hours))

create_calendar_excel(f, date, worked_hours, extra_hours) ==
    MergeAndSave(load_existing_data(f), date, worked_hours, extra_hours)

(***************************************************************************)
(* WorkHoursTracker: date selection                                        *)
(***************************************************************************)
\* datetime.today(): the day on which the modelled runs take place
Today == [ok |-> TRUE, y |-> 2025, m |-> 1, d |-> 15]

\* datetime.today() - timedelta(days=1)
Yesterday ==
    IF Today.d > 1 THEN [Today EXCEPT !.d = Today.d - 1]
    ELSE IF Today.m > 1
    THEN [Today EXCEPT !.m = Today.m - 1, !.d = DaysInMonth(Today.y, Today.m - 1)]
    ELSE [Today EXCEPT !.y = Today.y - 1, !.m = 12, !.d = 31]

get_today_date == strftime_date(Today)

get_yesterday_date == strftime_date(Yesterday)

\* date_object > datetime.today(): midnight of a day after today
DateAfter(a, b) ==
    \/ a.y > b.y
    \/ a.y = b.y /\ a.m > b.m
    \/ a.y = b.y /\ a.m = b.m /\ a.d > b.d

is_valid_date(date_string) ==
    LET date_object == strptime_date(date_string)
    IN date_object.ok /\ ~DateAfter(date_object, Today)

(***************************************************************************)
(* Inputs of the model: what the user may type, and the history files a    *)
(* first run may find.  Hours in a prior file are text (well formed or     *)
(* not); its dates are text, datetime cells or empty cells.                *)
(***************************************************************************)
MaxRuns == 2

MaxEntries == 2

Jan15 == <<"2", "0", "2", "5", "-", "0", "1", "-", "1", "5">>

Jan15Short == <<"2", "0", "2", "5", "-", "1", "-", "1", "5">>

DateInputs ==
    { Jan15, Jan15Short,
      <<"2", "0", "2", "5", "-", "0", "1", "-", "1", "6">>,
      <<"1", "5", "/", "0", "1", "/", "2", "0", "2", "5">> }

TimeInputs ==
    { <<"0", "8", ".", "0", "0">>, <<"1", "6", ".", "3", "0">>, <<"8", "h">> }

Choices == {"1", "2", "3", "x"}

NoFile == [exists |-> FALSE, readable |-> FALSE, sheets |-> <<>>]

UnreadableFile == [exists |-> TRUE, readable |-> FALSE, sheets |-> <<>>]

Row(date, worked, extra) == <<date, StrCell(worked), StrCell(extra)>>

\* rows out of chronological order, a datetime cell, a malformed duration
HistoryRows ==
    << DataHeader,
       Row(StrCell(<<"2", "0", "2", "4", "-", "1", "2", "-", "3", "1">>),
           <<"0", "9", ":", "1", "5">>, <<"0", "1", ":", "1", "5">>),
       Row(DateCell(2024, 11, 5), <<"0", "7", ":", "4", "5">>, <<"-", "1", ":", "4", "5">>),
       Row(StrCell(Jan15), <<"8", "h">>, ZeroExtra),
       Row(StrCell(<<"2", "0", "2", "5", "-", "0", "1", "-", "0", "8">>),
           <<"0", "8", ":", "0", "0">>, ZeroExtra) >>

LegacyRows ==
    << DataHeader,
       Row(StrCell(<<"2", "0", "2", "5", "-", "0", "1", "-", "1", "0">>),
           <<"1", "0", ":", "0", "0">>, <<"0", "2", ":", "0", "0">>) >>

CorruptRows ==
    << DataHeader,
       Row(StrCell(Jan15), <<"0", "8", ":", "0", "0">>, ZeroExtra),
       Row(StrCell(<<"1", "5", "/", "0", "1", "/", "2", "0", "2", "5">>),
           <<"0", "8", ":", "0", "0">>, ZeroExtra) >>

EmptyDateRows ==
    << DataHeader, <<NoCell, StrCell(<<"0", "8", ":", "0", "0">>), StrCell(ZeroExtra)>> >>

NoExtraColumnRows ==
    << <<StrCell(<<"Date">>), StrCell(<<"Hours Worked">>)>>,
       <<StrCell(Jan15), StrCell(<<"0", "8", ":", "0", "0">>)>> >>

SheetsFile(sheets) == [exists |-> TRUE, readable |-> TRUE, sheets |-> sheets]

PriorFiles ==
    { NoFile,
      UnreadableFile,
      SheetsFile(<< [title |-> <<"Data">>, rows |-> HistoryRows] >>),
      SheetsFile(<< [title |-> <<"Sheet1">>, rows |-> LegacyRows] >>),
      SheetsFile(<< [title |-> <<"Sheet1">>, rows |-> LegacyRows],
                    [title |-> <<"Data">>, rows |-> CorruptRows] >>),
      SheetsFile(<< [title |-> <<"Data">>, rows |-> CorruptRows] >>),
      SheetsFile(<< [title |-> <<"Data">>, rows |-> EmptyDateRows] >>),
      SheetsFile(<< [title |-> <<"Data">>, rows |-> NoExtraColumnRows] >>) }

(***************************************************************************)
(* The program as a state machine: one process run after another on the    *)
(* same history file.  pc is the prompt the run waits at.                  *)
(***************************************************************************)
VARIABLES
    file,            \* work_hours_history.xlsx
    pc,              \* "menu", "custom", "collect", "exited" or "crashed"
    selected_date,   \* WorkHoursTracker.selected_date
    time_entries,    \* WorkHoursTracker.time_entries
    runs,            \* process runs started so far
    saved,           \* the run that just ended wrote the file
    prior,           \* the file as that run found it
    loaded,          \* what _load_existing_data returned in that run
    work_data,       \* the store that run assembled the workbook from
    worked_hours,    \* the timedelta pair of _calculate_hours in that run
    extra_hours,
    ledger,          \* calendar date -> the durations of the latest run for it
    codec            \* one duration on its way through format and parse

vars == <<file, pc, selected_date, time_entries, runs, saved, prior, loaded,
          work_data, worked_hours, extra_hours, ledger, codec>>

history == <<saved, prior, loaded, work_data, worked_hours, extra_hours, ledger>>

CodecIdle == [step |-> "idle", by |-> "none", duration |-> 0, text |-> <<>>, parsed |-> 0]

Init ==
    /\ file \in PriorFiles
    /\ pc = "menu"
    /\ selected_date = <<>>
    /\ time_entries = <<>>
    /\ runs = 1
    /\ saved = FALSE
    /\ prior = NoFile
    /\ loaded = <<>>
    /\ work_data = <<>>
    /\ worked_hours = 0
    /\ extra_hours = 0
    /\ ledger = <<>>
    /\ codec = CodecIdle

\* _get_date_from_user: the menu
ChooseDate ==
    /\ pc = "menu"
    /\ \E choice \in Choices :
          IF choice = "2"
          THEN selected_date' = get_yesterday_date /\ pc' = "collect"
          ELSE IF choice = "3"
          THEN selected_date' = selected_date /\ pc' = "custom"
          ELSE selected_date' = get_today_date /\ pc' = "collect"
    /\ UNCHANGED <<file, time_entries, runs, history, codec>>

\* _get_custom_date: one pass of the loop
EnterCustomDate ==
    /\ pc = "custom"
    /\ \E date_input \in DateInputs :
          IF is_valid_date(date_input)
          THEN selected_date' = date_input /\ pc' = "collect"
          ELSE UNCHANGED <<selected_date, pc>>
    /\ UNCHANGED <<file, time_entries, runs, history, codec>>

\* _collect_time_entries: one pass of the loop with an entry other than "done"
EnterTime ==
    /\ pc = "collect"
    /\ Len(time_entries) < MaxEntries
    /\ \E time_input \in TimeInputs :
          IF is_valid_time_format(time_input)
          THEN time_entries' =
                   Append(time_entries,
                          [Date |-> selected_date,
                           Type |-> determine_entry_type(Len(time_entries)),
                           Time |-> time_input])
          ELSE UNCHANGED time_entries
    /\ UNCHANGED <<file, pc, selected_date, runs, history, codec>>

\* "done": the rest of run(), with _save_to_excel and create_calendar_excel
SaveToExcel(hours, worked_hours_string, extra_hours_string) ==
    \E out \in {create_calendar_excel(file, selected_date,
                                      worked_hours_string, extra_hours_string)} :
        IF out.raised
        THEN /\ pc' = "crashed"
             /\ UNCHANGED <<file, history>>
        ELSE /\ pc' = "exited"
             /\ file' = out.file
             /\ saved' = TRUE
             /\ prior' = file
             /\ loaded' = out.loaded
             /\ work_data' = out.work_data
             /\ worked_hours' = hours.worked
             /\ extra_hours' = hours.extra
             /\ ledger' = DictSet(ledger, strftime_date(strptime_date(selected_date)),
                                  [worked |-> hours.worked, extra |-> hours.extra])

Done ==
    /\ pc = "collect"
    /\ IF time_entries = <<>>
       THEN /\ pc' = "exited"
            /\ UNCHANGED <<file, history>>
       ELSE \E hours \in {calculate_hours(time_entries)} :
                SaveToExcel(hours, Tracker_format_timedelta(hours.worked),
                            Tracker_format_timedelta(hours.extra))
    /\ UNCHANGED <<selected_date, time_entries, runs, codec>>

\* the program is started again: a new process and a new WorkHoursTracker();
\* of the run before it, only the file is left
Start ==
    /\ pc = "exited"
    /\ runs < MaxRuns
    /\ pc' = "menu"
    /\ selected_date' = <<>>
    /\ time_entries' = <<>>
    /\ runs' = runs + 1
    /\ saved' = FALSE
    /\ prior' = NoFile
    /\ loaded' = <<>>
    /\ work_data' = <<>>
    /\ worked_hours' = 0
    /\ extra_hours' = 0
    /\ UNCHANGED <<file, ledger, codec>>

Next == ChooseDate \/ EnterCustomDate \/ EnterTime \/ Done \/ Start

Spec == Init /\ [][Next]_vars

(***************************************************************************)
(* The duration codec on its own: a duration of whole hours and minutes is *)
(* formatted by either formatter of the program and parsed back.           *)
(***************************************************************************)
MaxHours == 100

MinutesPerHour == 60

CodecDurations ==
    { h * SecondsPerHour + m * SecondsPerMinute : h \in 0..MaxHours, m \in 0..(MinutesPerHour - 1) }

CodecInit ==
    /\ file = NoFile
    /\ pc = "codec"
    /\ selected_date = <<>>
    /\ time_entries = <<>>
    /\ runs = 0
    /\ saved = FALSE
    /\ prior = NoFile
    /\ loaded = <<>>
    /\ work_data = <<>>
    /\ worked_hours = 0
    /\ extra_hours = 0
    /\ ledger = <<>>
    /\ \E d \in CodecDurations, f \in {"tracker", "formatter"} :
          codec = [step |-> "new", by |-> f, duration |-> d, text |-> <<>>, parsed |-> 0]

CodecFormat ==
    /\ codec.step = "new"
    /\ codec' = [codec EXCEPT
                   !.step = "formatted",
                   !.text = IF codec.by = "tracker"
                            THEN Tracker_format_timedelta(codec.duration)
                            ELSE format_timedelta(codec.duration)]
    /\ UNCHANGED <<file, pc, selected_date, time_entries, runs, history>>

CodecParse ==
    /\ codec.step = "formatted"
    /\ codec' = [codec EXCEPT
                   !.step = "parsed",
                   !.parsed = parse_time_string(StrCell(codec.text))]
    /\ UNCHANGED <<file, pc, selected_date, time_entries, runs, history>>

CodecNext == CodecFormat \/ CodecParse

SpecCodec == CodecInit /\ [][CodecNext]_vars

(***************************************************************************)
(* Properties.  In a state with saved = TRUE a run has just written the    *)
(* file: selected_date, worked_hours and extra_hours are what it merged,   *)
(* prior is the file it found, loaded the store it loaded, work_data the   *)
(* store it assembled from and file the document it produced.              *)
(***************************************************************************)
\* the calendar date a date text names, as canonical text
CalendarDate(date) == strftime_date(strptime_date(date))

MergedDay == CalendarDate(selected_date)

MergedWorked == StrCell(Tracker_format_timedelta(worked_hours))

MergedExtra == StrCell(Tracker_format_timedelta(extra_hours))

\* the indices of the rows of a flattened store that are for one calendar date
RowsOn(rows, day) == {i \in 1..Len(rows) : CalendarDate(rows[i][1].v) = day}

HasRow(rows, row) == \E i \in 1..Len(rows) : rows[i] = row

KeyYear(month_key) == IntVal(Split(month_key, "-")[1])

KeyMonth(month_key) == IntVal(Split(month_key, "-")[2])

\* the month sheet of the saved file for a month key of the store
SheetOf(month_key) == SheetNamed(file, SheetTitle(KeyYear(month_key), KeyMonth(month_key)))

\* the day of the month of a canonical date text
DayOf(date) == strptime_date(date).d

\* a record of a month bucket that the grid has a slot for: its key is the
\* canonical text of its date
Rendered(entry) == entry.key = CalendarDate(entry.key)

WorkedLine(hours) == StrCell(<<"W: ">> \o FormatValue(hours.worked_hours))

ExtraLine(hours) == StrCell(<<"E: ">> \o FormatValue(hours.extra_hours))

\* C1: merging a date that already has a record replaces the record: the
\* flattened store has exactly one row for that calendar date, and the row
\* carries the merged worked/extra text, whatever text the date was given as
C1_OverwriteLeavesOneRow ==
    (saved /\ RowsOn(flatten_work_data(loaded), MergedDay) # {})
        => LET rows == flatten_work_data(work_data)
           IN /\ Cardinality(RowsOn(rows, MergedDay)) = 1
              /\ \A i \in RowsOn(rows, MergedDay) :
                    rows[i][2] = MergedWorked /\ rows[i][3] = MergedExtra

\* C2: when the merged date was not in the loaded store, loading the produced
\* document again gives a store whose flattened form has the merged worked and
\* extra text on exactly one row for that date, and every row that was loaded
C2_RoundTrip ==
    (saved /\ RowsOn(flatten_work_data(loaded), MergedDay) = {})
        => LET again == load_from_data_sheet(file)
               rows == flatten_work_data(again.data)
               before == flatten_work_data(loaded)
           IN /\ ~again.raised
              /\ load_existing_data(file) = again
              /\ Cardinality(RowsOn(rows, MergedDay)) = 1
              /\ \A i \in RowsOn(rows, MergedDay) :
                    rows[i][2] = MergedWorked /\ rows[i][3] = MergedExtra
              /\ \A j \in 1..Len(before) : HasRow(rows, before[j])

C2_Witness ==
    /\ saved
    /\ selected_date = Jan15Short
    /\ Len(flatten_work_data(loaded)) >= 1
    /\ RowsOn(flatten_work_data(loaded), MergedDay) = {}

\* C3: a merge changes the record of its own date only: every loaded record
\* of another date, in any month, is in the merged store unchanged and nothing
\* else is added; and over the runs, the latest durations written for a date
\* are in the store that the next run loads
C3_NothingDeleted ==
    saved =>
        LET before == flatten_work_data(loaded)
            after == flatten_work_data(work_data)
            next == flatten_work_data(load_existing_data(file).data)
        IN /\ \A j \in 1..Len(before) :
                 CalendarDate(before[j][1].v) # MergedDay => HasRow(after, before[j])
           /\ \A i \in 1..Len(after) :
                 \/ HasRow(before, after[i])
                 \/ after[i] = <<StrCell(selected_date), MergedWorked, MergedExtra>>
           /\ \A k \in 1..Len(ledger) :
                 \E i \in RowsOn(next, ledger[k].key) :
                    /\ next[i][2] = StrCell(Tracker_format_timedelta(ledger[k].value.worked))
                    /\ next[i][3] = StrCell(Tracker_format_timedelta(ledger[k].value.extra))

C3_Witness ==
    /\ saved
    /\ runs = 2
    /\ Len(ledger) = 2
    /\ Len(loaded) >= 3
    /\ \E j \in 1..Len(flatten_work_data(loaded)) :
          CalendarDate(flatten_work_data(loaded)[j][1].v) # MergedDay

\* the month a month sheet is for, counted in months, read from its title
SheetMonth(sheet) ==
    12 * DigitsToNat(SubSeq(sheet.title, 3, Len(sheet.title)))
    + (CHOOSE m \in 1..12 : month_name[m] = sheet.title[1])

\* C4: the assembled document has one month sheet for every month key of the
\* store, in ascending order of month, then the sheet "Data" as the last one,
\* and no other sheet
C4_SheetsChronological ==
    saved =>
        LET sheets == file.sheets
            n == Len(file.sheets)
        IN /\ n = Len(work_data) + 1
           /\ sheets[n].title = <<"Data">>
           /\ \A i \in 1..(n - 1) : sheets[i].title \notin {<<"Data">>, <<"Sheet">>}
           /\ \A k \in 1..Len(work_data) :
                 Cardinality({i \in 1..(n - 1) :
                     sheets[i].title = SheetTitle(KeyYear(work_data[k].key),
                                                  KeyMonth(work_data[k].key))}) = 1
           /\ \A i \in 1..(n - 1) : \A j \in 1..(n - 1) :
                 i < j => SheetMonth(sheets[i]) < SheetMonth(sheets[j])

C4_Witness ==
    /\ saved
    /\ Len(work_data) >= 3
    /\ \E i \in 1..Len(work_data) : \E j \in 1..Len(work_data) :
          i < j /\ TextLess(work_data[j].key, work_data[i].key)

\* C5: in the finished grid of every month, every recorded day that has a slot
\* shows its day number, "W: <worked>" in the cell beneath it and, when there is
\* an extra line, "E: <extra>" beneath that; the totals row shows the totals
C5_DaySlotShowsHours ==
    saved =>
        \A k \in 1..Len(work_data) :
            LET grid == SheetOf(work_data[k].key).rows
                bucket == work_data[k].value
                totals == calculate_monthly_totals(bucket)
            IN /\ \A e \in 1..Len(bucket) :
                     Rendered(bucket[e]) =>
                        \E r \in 1..(Len(grid) - 2) : \E c \in 1..DaysPerWeek :
                            /\ grid[r][c] = IntCell(DayOf(bucket[e].key))
                            /\ grid[r + 1][c] = WorkedLine(bucket[e].value)
                            /\ bucket[e].value.extra_hours # StrCell(ZeroExtra)
                                  => grid[r + 2][c] = ExtraLine(bucket[e].value)
               /\ grid[Len(grid)][3] =
                     StrCell(<<"Worked: ">> \o format_timedelta(totals.total_worked))
               /\ grid[Len(grid)][5] =
                     StrCell(<<"Extra: ">> \o format_timedelta(totals.total_extra))

\* C6: in the finished grid of every month, for every recorded day that has a
\* slot, the cell two rows beneath its day number holds "E: <extra>" exactly
\* when the record's extra text is not "00:00"
C6_ExtraLineIffNonZero ==
    saved =>
        \A k \in 1..Len(work_data) :
            LET grid == SheetOf(work_data[k].key).rows
                bucket == work_data[k].value
            IN \A e \in 1..Len(bucket) :
                  Rendered(bucket[e]) =>
                     \E r \in 1..(Len(grid) - 2) : \E c \in 1..DaysPerWeek :
                         /\ grid[r][c] = IntCell(DayOf(bucket[e].key))
                         /\ (grid[r + 2][c] = ExtraLine(bucket[e].value))
                               <=> (bucket[e].value.extra_hours # StrCell(ZeroExtra))

\* C7: no state of the prior file makes the load fail the run: the store is
\* the one of the Data sheet when that loads, else the one of the legacy
\* layout when that loads, else empty, and then the run ends as a run without
\* any prior file does
C7_LoadAbsorbsFailure ==
    /\ pc # "crashed"
    /\ saved =>
          LET fromData == load_from_data_sheet(prior)
              legacy == load_from_legacy_format(prior)
          IN /\ (prior.exists /\ ~fromData.raised) => loaded = fromData.data
             /\ (prior.exists /\ fromData.raised /\ ~legacy.raised) => loaded = legacy.data
             /\ (~prior.exists \/ (fromData.raised /\ legacy.raised)) =>
                   /\ loaded = <<>>
                   /\ flatten_work_data(work_data)
                         = << <<StrCell(selected_date), MergedWorked, MergedExtra>> >>
                   /\ file = create_calendar_excel(NoFile, selected_date,
                                 MergedWorked.v, MergedExtra.v).file

C7_Witness ==
    /\ saved
    /\ prior.exists
    /\ load_from_data_sheet(prior).raised
    /\ load_from_legacy_format(prior).raised

\* a record that a run of the program wrote: a run merged its date, and its
\* texts are the formatted durations that run computed
WrittenByRun(entry) ==
    /\ DictHas(ledger, CalendarDate(entry.key))
    /\ entry.value.worked_hours =
          StrCell(Tracker_format_timedelta(DictGet(ledger, CalendarDate(entry.key)).worked))
    /\ entry.value.extra_hours =
          StrCell(Tracker_format_timedelta(DictGet(ledger, CalendarDate(entry.key)).extra))

RECURSIVE SumTrueExtra(_, _)
\* the sum, over the first n records of a month, of the extra duration (worked
\* less the standard workday) that the run for the record computed
SumTrueExtra(month_data, n) ==
    IF n = 0 THEN 0
    ELSE DictGet(ledger, CalendarDate(month_data[n].key)).worked
            - STANDARD_WORKDAY_HOURS * SecondsPerHour
            + SumTrueExtra(month_data, n - 1)

\* a stored text of the form <integer>:<integer>
WellFormed(text) ==
    /\ text.kind = "str"
    /\ Len(Split(text.v, ":")) = 2
    /\ \A i \in 1..2 : IntOk(Split(text.v, ":")[i])

\* C8: the totals row of every month shows the formatted sums of the parsed
\* worked and extra texts of the month's records, to which a malformed text
\* adds nothing; and when the records were written by runs of the program,
\* negative extra texts among them, the extra total is the sum of the true
\* extra durations (worked less 8 hours) of the records
C8_MonthlyTotals ==
    saved =>
        \A k \in 1..Len(work_data) :
            LET grid == SheetOf(work_data[k].key).rows
                bucket == work_data[k].value
            IN /\ grid[Len(grid)][3] =
                     StrCell(<<"Worked: ">> \o format_timedelta(SumWorked(bucket)))
               /\ grid[Len(grid)][5] =
                     StrCell(<<"Extra: ">> \o format_timedelta(SumExtra(bucket)))
               /\ SumWorked(bucket) =
                     SumWorked(SelectSeq(bucket,
                         LAMBDA entry : WellFormed(entry.value.worked_hours)))
               /\ SumExtra(bucket) =
                     SumExtra(SelectSeq(bucket,
                         LAMBDA entry : WellFormed(entry.value.extra_hours)))
               /\ (\A e \in 1..Len(bucket) : WrittenByRun(bucket[e]))
                     => /\ SumExtra(bucket) = SumTrueExtra(bucket, Len(bucket))
                        /\ grid[Len(grid)][5] =
                              StrCell(<<"Extra: ">> \o
                                  format_timedelta(SumTrueExtra(bucket, Len(bucket))))

C8_Witness ==
    /\ saved
    /\ \E k \in 1..Len(work_data) :
          /\ Len(work_data[k].value) >= 2
          /\ \A e \in 1..Len(work_data[k].value) : WrittenByRun(work_data[k].value[e])
          /\ \E e \in 1..Len(work_data[k].value) :
                /\ DictGet(ledger, CalendarDate(work_data[k].value[e].key)).extra < 0
                /\ DictGet(ledger, CalendarDate(work_data[k].value[e].key)).extra
                      % SecondsPerHour # 0
          /\ SumExtra(work_data[k].value) < 0

\* C9: a non-negative duration of whole hours and minutes, of 100 hours or
\* more too, is formatted as the zero-padded whole hours, ":" and the two
\* digits of the remaining minutes, and parsing that text gives the duration
C9_CodecInverse ==
    /\ codec.step \in {"formatted", "parsed"} =>
          LET parts == Split(codec.text, ":")
          IN /\ Len(parts) = 2
             /\ Len(parts[1]) >= 2 /\ AllDigits(parts[1])
             /\ Len(parts[2]) = 2 /\ AllDigits(parts[2])
             /\ DigitsToNat(parts[1]) = codec.duration \div SecondsPerHour
             /\ DigitsToNat(parts[2]) = (codec.duration % SecondsPerHour) \div SecondsPerMinute
    /\ codec.step = "parsed" => codec.parsed = codec.duration

C9_Witness ==
    /\ codec.step = "parsed"
    /\ codec.duration >= 100 * SecondsPerHour + SecondsPerMinute
    /\ codec.parsed = codec.duration

\* C10: the worked duration a run computes from its time entries is not
\* negative, and the extra duration is the worked duration less 8 hours
C10_WorkedNonNegative ==
    saved =>
        /\ worked_hours >= 0
        /\ extra_hours = worked_hours - STANDARD_WORKDAY_HOURS * SecondsPerHour

====
